---- MODULE Spec2Model ----
(***************************************************************************)
(* Model of exporter/loadbalancingexporter/metrics_exporter.go: the        *)
(* metrics dispatcher of the load-balancing exporter.                      *)
(*                                                                         *)
(* A pmetric.Metrics value is a sequence of resource groups; a resource    *)
(* group is a record [svc, scopes] where svc is the value of its           *)
(* "service.name" attribute (or NoAttr when the attribute is absent) and   *)
(* scopes is a sequence of scope groups; a scope group is the sequence of  *)
(* the names of its metrics.                                               *)
(*                                                                         *)
(* An error value is a string, Nil for the nil error.  An aggregate error  *)
(* (go.uber.org/multierr) is the sequence of the errors it combines, the   *)
(* empty sequence for nil.                                                 *)
(***************************************************************************)
EXTENDS Integers, Sequences, FiniteSets, TLC

\* ---------------------------------------------------------------- bounds
\* Number of nodes (resource groups + scope groups + metrics) of a payload.
MaxNodes == 6
\* Number of concurrent ConsumeMetrics callers.
NumCallers == 2

\* ------------------------------------------------------------ value sets
ServiceNames == {"a", "b"}
MetricNames == {"m1", "m2"}
NoAttr == "<absent>"
Nil == "<nil>"

svcRouting == "svcRouting"
traceIDRouting == "traceIDRouting"

ErrEmptyResource == "empty resource metrics"
ErrEmptyScope == "empty scope metrics"
ErrEmptyMetrics == "empty metrics"
ErrNoServiceName == "unable to get metric name"
ErrExporter == "load balancer: no exporter for endpoint"
ErrUnexpectedType == "unable to export metrics, unexpected exporter type"
ErrForward == "backend: consume metrics failed"

Callers == 1..NumCallers

\* ------------------------------------------------------- pure functions

\* Number of nodes of the scope groups ss.
RECURSIVE ScopeNodes(_)
ScopeNodes(ss) ==
    IF ss = <<>> THEN 0 ELSE 1 + Len(Head(ss)) + ScopeNodes(Tail(ss))

\* Number of nodes of the payload md.
RECURSIVE Nodes(_)
Nodes(md) ==
    IF md = <<>> THEN 0 ELSE 1 + ScopeNodes(Head(md).scopes) + Nodes(Tail(md))

\* A slip: a resource without service.name is skipped, not an error.
RECURSIVE ServiceIdsSkipMissing(_, _, _)
ServiceIdsSkipMissing(md, i, ids) ==
    IF i > Len(md) THEN [ids |-> ids, err |-> Nil]
    ELSE IF md[i].svc = NoAttr THEN ServiceIdsSkipMissing(md, i + 1, ids)
    ELSE ServiceIdsSkipMissing(md, i + 1, ids \cup {md[i].svc})

\* The loop of lines 142-148 from resource i on: the identifiers collected so
\* far, or the error of the first resource without a service.name attribute.
RECURSIVE ServiceIds(_, _, _)
ServiceIds(md, i, ids) ==
    IF i > Len(md) THEN [ids |-> ids, err |-> Nil]
    ELSE IF md[i].svc = NoAttr THEN [ids |-> {}, err |-> ErrNoServiceName]
    ELSE ServiceIds(md, i + 1, ids \cup {md[i].svc})

\* A slip: the service branch is taken before the scope and metric checks.
routingIdentifiersServiceFirst(md, key) ==
    IF Len(md) = 0 THEN [ids |-> {}, err |-> ErrEmptyResource]
    ELSE IF key = svcRouting THEN ServiceIds(md, 1, {})
    ELSE IF Len(md[1].scopes) = 0 THEN [ids |-> {}, err |-> ErrEmptyScope]
    ELSE IF Len(md[1].scopes[1]) = 0 THEN [ids |-> {}, err |-> ErrEmptyMetrics]
    ELSE [ids |-> {md[1].scopes[1][1]}, err |-> Nil]

\* A slip: the default identifier is the last metric's name, not the first's.
routingIdentifiersLastMetric(md, key) ==
    IF Len(md) = 0 THEN [ids |-> {}, err |-> ErrEmptyResource]
    ELSE IF Len(md[1].scopes) = 0 THEN [ids |-> {}, err |-> ErrEmptyScope]
    ELSE IF Len(md[1].scopes[1]) = 0 THEN [ids |-> {}, err |-> ErrEmptyMetrics]
    ELSE IF key = svcRouting THEN ServiceIds(md, 1, {})
    ELSE [ids |-> {md[1].scopes[1][Len(md[1].scopes[1])]}, err |-> Nil]

\* A slip: the check of the metrics reuses the error of the scope check.
routingIdentifiersSameError(md, key) ==
    IF Len(md) = 0 THEN [ids |-> {}, err |-> ErrEmptyResource]
    ELSE IF Len(md[1].scopes) = 0 THEN [ids |-> {}, err |-> ErrEmptyScope]
    ELSE IF Len(md[1].scopes[1]) = 0 THEN [ids |-> {}, err |-> ErrEmptyScope]
    ELSE IF key = svcRouting THEN ServiceIds(md, 1, {})
    ELSE [ids |-> {md[1].scopes[1][1]}, err |-> Nil]

routingIdentifiersFromMetrics(md, key) ==
    IF Len(md) = 0 THEN [ids |-> {}, err |-> ErrEmptyResource]
    ELSE IF Len(md[1].scopes) = 0 THEN [ids |-> {}, err |-> ErrEmptyScope]
    ELSE IF Len(md[1].scopes[1]) = 0 THEN [ids |-> {}, err |-> ErrEmptyMetrics]
    ELSE IF key = svcRouting THEN ServiceIds(md, 1, {})
    ELSE [ids |-> {md[1].scopes[1][1]}, err |-> Nil]


\* batchpersignal.SplitMetrics: one sub-batch per top-level resource group.
SplitMetrics(md) == [i \in 1..Len(md) |-> <<md[i]>>]

\* A slip: the result of a sub-batch replaces the aggregate.
multierrOverwrite(left, right) ==
    IF right = Nil THEN <<>> ELSE <<right>>

\* multierr.Append(left, right) at line 76: nil operands are dropped.
multierrAppend(left, right) ==
    IF right = Nil THEN left ELSE Append(left, right)

\* loadBalancer.Endpoint: the backend a routing identifier hashes to.
Endpoint(rid) ==
    IF rid \in {"a", "m1"} THEN "backend-1:4317" ELSE "backend-2:4317"

\* What loadBalancer.Exporter(endpoint) can answer: an exporter.Metrics, a
\* component of another type, or an error.
ExporterAnswers == {"metrics", "other", "error"}

\* What the backend exporter's ConsumeMetrics can return.
ForwardAnswers == {Nil, ErrForward}

\* The configuration values of routing_key.
RoutingKeyValues == {"service", "_metric_ID", "", "traceID", "bogus"}

ErrNewLoadBalancer == "load balancer: invalid resolver configuration"

\* A slip: the switch has no default branch.
newMetricsExporterNoDefault(cfg) ==
    IF cfg.lbErr THEN [exp |-> "nil", routingKey |-> "", err |-> ErrNewLoadBalancer]
    ELSE IF cfg.key = "service"
        THEN [exp |-> "created", routingKey |-> svcRouting, err |-> Nil]
    ELSE [exp |-> "created", routingKey |-> traceIDRouting, err |-> Nil]

\* newMetricsExporter(params, cfg): cfg.RoutingKey is cfg.key, and cfg.lbErr
\* tells whether newLoadBalancer returns an error.
newMetricsExporter(cfg) ==
    IF cfg.lbErr THEN [exp |-> "nil", routingKey |-> "", err |-> ErrNewLoadBalancer]
    ELSE IF cfg.key = "service"
        THEN [exp |-> "created", routingKey |-> svcRouting, err |-> Nil]
    ELSE IF cfg.key \in {"_metric_ID", ""}
        THEN [exp |-> "created", routingKey |-> traceIDRouting, err |-> Nil]
    ELSE [exp |-> "nil", routingKey |-> "",
          err |-> "unsupported routing_key: " \o cfg.key]

\* A slip: both branches use successTrueMutator.
LatencySampleAlwaysTrue(endpoint, err) ==
    [endpoint |-> endpoint, success |-> TRUE]

\* The tags of the latency sample recorded after a forward call to endpoint
\* that returned err (lines 104-114).
LatencySample(endpoint, err) ==
    [endpoint |-> endpoint, success |-> (err = Nil)]

\* ----------------------------------------------------------------- state
VARIABLES
    cfg,         \* the configuration handed to newMetricsExporter
    exporter,    \* "none" before construction, then "created" or "nil"
    newErr,      \* the error newMetricsExporter returned
    routingKey,  \* metricExporterImp.routingKey
    lbState,     \* the load balancer: "new", "started" or "startFailed"
    stopped,     \* metricExporterImp.stopped
    shutdownWg,  \* the counter of metricExporterImp.shutdownWg
    sd,          \* the Shutdown call: its position, the callers that were
                 \* in flight when it was made, and the callers that had
                 \* not begun when it returned
    payload,     \* the pmetric.Metrics the pipeline hands over
    phase,       \* "build" while the payload is being assembled
    call,        \* per caller: position and locals of ConsumeMetrics
    obs          \* per caller: the calls it made to its collaborators

vars == <<cfg, exporter, newErr, routingKey, lbState, stopped, shutdownWg,
          sd, payload, phase, call, obs>>

lifecycle == <<cfg, exporter, newErr, routingKey, lbState, stopped,
               shutdownWg, sd>>

IdleCall ==
    [pc |-> "idle", entry |-> "", batches |-> <<>>, idx |-> 0, errs |-> <<>>,
     routingIds |-> {}, endpoint |-> "", err |-> Nil, ret |-> <<>>]

\* events: the collaborator calls of the current sub-batch dispatch;
\* dispatched: the sub-batch each consumeMetric call was given and the error
\* it returned; failures: every failure met during the invocation; left: the
\* identifiers not yet visited when the last consumeMetric call returned.
\* md, extracted: the sub-batch of the last consumeMetric call and what
\* routingIdentifiersFromMetrics returned for it; history: the collaborator
\* calls of all the consumeMetric calls that have returned.
NoObs ==
    [events |-> <<>>, dispatched |-> <<>>, failures |-> <<>>, left |-> {},
     md |-> <<>>, extracted |-> [ids |-> {}, err |-> Nil], history |-> <<>>]

InFlight(p) == call[p].pc \notin {"idle", "done"}


\* ------------------------------------------------- assembling a payload
\* The pipeline assembles the payload it will hand over: a resource group, a
\* scope group in the last resource group, a metric in its last scope group.
AddResource(svc) ==
    /\ phase = "build"
    /\ Nodes(payload) < MaxNodes
    /\ payload' = Append(payload, [svc |-> svc, scopes |-> <<>>])
    /\ UNCHANGED <<lifecycle, phase, call, obs>>

AddScope ==
    /\ phase = "build"
    /\ Nodes(payload) < MaxNodes
    /\ payload # <<>>
    /\ LET n == Len(payload) IN
       payload' = [payload EXCEPT ![n].scopes = Append(@, <<>>)]
    /\ UNCHANGED <<lifecycle, phase, call, obs>>

AddMetric(name) ==
    /\ phase = "build"
    /\ Nodes(payload) < MaxNodes
    /\ payload # <<>>
    /\ payload[Len(payload)].scopes # <<>>
    /\ LET n == Len(payload)
           k == Len(payload[n].scopes) IN
       payload' = [payload EXCEPT ![n].scopes[k] = Append(@, name)]
    /\ UNCHANGED <<lifecycle, phase, call, obs>>

\* ------------------------------------------------------------ lifecycle
NewMetricsExporter ==
    /\ exporter = "none"
    /\ LET r == newMetricsExporter(cfg) IN
        /\ exporter' = r.exp
        /\ routingKey' = r.routingKey
        /\ newErr' = r.err
    /\ UNCHANGED <<cfg, lbState, stopped, shutdownWg, sd, payload, phase, call, obs>>

\* Start: e.loadBalancer.Start succeeds or returns an error.
Start ==
    /\ exporter = "created"
    /\ lbState = "new"
    /\ sd.pc = "idle"
    /\ \E ok \in BOOLEAN : lbState' = IF ok THEN "started" ELSE "startFailed"
    /\ UNCHANGED <<cfg, exporter, newErr, routingKey, stopped, shutdownWg, sd,
                   payload, phase, call, obs>>

\* A slip: Shutdown registers itself with the wait group it then waits on.
ShutdownStopAddsOne ==
    /\ exporter = "created"
    /\ sd.pc = "idle"
    /\ stopped' = TRUE
    /\ shutdownWg' = shutdownWg + 1
    /\ sd' = [pc |-> "wait", inflight |-> {p \in Callers : InFlight(p)},
              late |-> {}]
    /\ UNCHANGED <<cfg, exporter, newErr, routingKey, lbState,
                   payload, phase, call, obs>>

\* Shutdown, line 67.
ShutdownStop ==
    /\ exporter = "created"
    /\ sd.pc = "idle"
    /\ stopped' = TRUE
    /\ sd' = [pc |-> "wait", inflight |-> {p \in Callers : InFlight(p)},
              late |-> {}]
    /\ UNCHANGED <<cfg, exporter, newErr, routingKey, lbState, shutdownWg,
                   payload, phase, call, obs>>

\* Shutdown, lines 68-69: Wait returns once the counter is zero.
ShutdownReturn ==
    /\ sd.pc = "wait"
    /\ shutdownWg = 0
    /\ sd' = [sd EXCEPT !.pc = "returned",
                         !.late = {p \in Callers : call[p].pc = "idle"}]
    /\ UNCHANGED <<cfg, exporter, newErr, routingKey, lbState, stopped,
                   shutdownWg, payload, phase, call, obs>>

\* ------------------------------------------------------- ConsumeMetrics
\* Lines 72-74: entry of ConsumeMetrics(ctx, payload).  The pipeline hands
\* data over only once it has called Start, whatever Start returned.
ConsumeMetrics(p) ==
    /\ exporter = "created"
    /\ lbState # "new"
    /\ call[p].pc = "idle"
    /\ phase' = "run"
    /\ call' = [call EXCEPT ![p] = [IdleCall EXCEPT
            !.pc = "loop", !.entry = "ConsumeMetrics",
            !.batches = SplitMetrics(payload), !.idx = 1]]
    /\ obs' = [obs EXCEPT ![p] = NoObs]
    /\ UNCHANGED <<lifecycle, payload>>

\* A slip: the aggregate is a field of the exporter, shared by all the
\* invocations in flight.
ReturnToLoopSharedErrs(p, md, r, e, left, events, failed) ==
    /\ call' = [q \in Callers |->
            IF q = p
            THEN [call[p] EXCEPT !.pc = "loop",
                                 !.errs = multierrAppend(@, e),
                                 !.idx = @ + 1,
                                 !.routingIds = {},
                                 !.endpoint = "",
                                 !.err = Nil]
            ELSE IF call[q].pc \in {"idle", "done"} THEN call[q]
            ELSE [call[q] EXCEPT !.errs = multierrAppend(@, e)]]
    /\ obs' = [obs EXCEPT ![p].events = events,
                          ![p].dispatched = Append(@, [md |-> md, err |-> e]),
                          ![p].failures = IF failed = Nil THEN @ ELSE Append(@, failed),
                          ![p].left = left,
                          ![p].md = md,
                          ![p].extracted = r,
                          ![p].history = @ \o events]

\* consumeMetric returns e to line 76, with the identifiers left unvisited.
ReturnToLoop(p, md, r, e, left, events, failed) ==
    /\ call' = [call EXCEPT ![p].pc = "loop",
                            ![p].errs = multierrAppend(@, e),
                            ![p].idx = @ + 1,
                            ![p].routingIds = {},
                            ![p].endpoint = "",
                            ![p].err = Nil]
    /\ obs' = [obs EXCEPT ![p].events = events,
                          ![p].dispatched = Append(@, [md |-> md, err |-> e]),
                          ![p].failures = IF failed = Nil THEN @ ELSE Append(@, failed),
                          ![p].left = left,
                          ![p].md = md,
                          ![p].extracted = r,
                          ![p].history = @ \o events]

\* Lines 75-76 and 82-87: the next sub-batch is handed to consumeMetric,
\* which extracts its routing identifiers.
ConsumeMetricEnter(p) ==
    /\ call[p].pc = "loop"
    /\ call[p].idx <= Len(call[p].batches)
    /\ LET md == call[p].batches[call[p].idx]
           r == routingIdentifiersFromMetrics(md, routingKey) IN
       IF r.err # Nil
       THEN ReturnToLoop(p, md, r, r.err, {}, <<>>, r.err)
       ELSE /\ call' = [call EXCEPT ![p].pc = "range",
                                    ![p].routingIds = r.ids,
                                    ![p].err = Nil]
            /\ obs' = [obs EXCEPT ![p].events = <<>>, ![p].left = {},
                                  ![p].md = md, ![p].extracted = r]
    /\ UNCHANGED <<lifecycle, payload, phase>>

\* A slip: the type of the component is not tested before it is used.
ResolveNoTypeCheck(p) ==
    /\ call[p].pc = "range"
    /\ \E rid \in call[p].routingIds, answer \in ExporterAnswers :
        LET endpoint == Endpoint(rid)
            left == call[p].routingIds \ {rid}
            events == obs[p].events \o
                <<[op |-> "Endpoint", rid |-> rid, endpoint |-> endpoint],
                  [op |-> "Exporter", endpoint |-> endpoint, answer |-> answer]>>
        IN  IF answer = "error"
            THEN call' = [call EXCEPT ![p].pc = "loop",
                                      ![p].errs = multierrAppend(@, ErrExporter),
                                      ![p].idx = @ + 1,
                                      ![p].routingIds = {},
                                      ![p].endpoint = "",
                                      ![p].err = Nil]
                 /\ obs' = [obs EXCEPT
                        ![p].events = events,
                        ![p].dispatched =
                            Append(@, [md |-> obs[p].md, err |-> ErrExporter]),
                        ![p].failures = Append(@, ErrExporter),
                        ![p].left = left]
            ELSE /\ call' = [call EXCEPT ![p].pc = "forward",
                                         ![p].routingIds = left,
                                         ![p].endpoint = endpoint]
                 /\ obs' = [obs EXCEPT ![p].events = events]
    /\ UNCHANGED <<lifecycle, payload, phase>>

\* A slip: a failed Exporter lookup skips the identifier instead of returning.
ResolveSkipsFailure(p) ==
    /\ call[p].pc = "range"
    /\ \E rid \in call[p].routingIds, answer \in ExporterAnswers :
        LET endpoint == Endpoint(rid)
            left == call[p].routingIds \ {rid}
            events == obs[p].events \o
                <<[op |-> "Endpoint", rid |-> rid, endpoint |-> endpoint],
                  [op |-> "Exporter", endpoint |-> endpoint, answer |-> answer]>>
        IN  IF answer = "metrics"
            THEN /\ call' = [call EXCEPT ![p].pc = "forward",
                                         ![p].routingIds = left,
                                         ![p].endpoint = endpoint]
                 /\ obs' = [obs EXCEPT ![p].events = events]
            ELSE /\ call' = [call EXCEPT ![p].routingIds = left,
                                         ![p].err = ErrExporter]
                 /\ obs' = [obs EXCEPT ![p].events = events,
                                       ![p].failures = Append(@, ErrExporter)]
    /\ UNCHANGED <<lifecycle, payload, phase>>

\* Lines 88-98: the range visits one more identifier, in any order, and
\* resolves its endpoint and its exporter.
Resolve(p) ==
    /\ call[p].pc = "range"
    /\ \E rid \in call[p].routingIds, answer \in ExporterAnswers :
        LET endpoint == Endpoint(rid)
            left == call[p].routingIds \ {rid}
            events == obs[p].events \o
                <<[op |-> "Endpoint", rid |-> rid, endpoint |-> endpoint],
                  [op |-> "Exporter", endpoint |-> endpoint, answer |-> answer]>>
        IN  CASE answer = "error" ->
                    ReturnToLoop(p, obs[p].md, obs[p].extracted, ErrExporter,
                                 left, events, ErrExporter)
              [] answer = "other" ->
                    ReturnToLoop(p, obs[p].md, obs[p].extracted, ErrUnexpectedType,
                                 left, events, ErrUnexpectedType)
              [] answer = "metrics" ->
                    /\ call' = [call EXCEPT ![p].pc = "forward",
                                            ![p].routingIds = left,
                                            ![p].endpoint = endpoint]
                    /\ obs' = [obs EXCEPT ![p].events = events]
    /\ UNCHANGED <<lifecycle, payload, phase>>

\* A slip: the backend is sent the first resource group only.
ForwardFirstResource(p) ==
    /\ call[p].pc = "forward"
    /\ \E e \in ForwardAnswers :
        /\ call' = [call EXCEPT ![p].pc = "record", ![p].err = e]
        /\ obs' = [obs EXCEPT
                ![p].events = Append(@, [op |-> "ConsumeMetrics",
                                         endpoint |-> call[p].endpoint,
                                         md |-> SubSeq(call[p].batches[call[p].idx], 1, 1),
                                         err |-> e]),
                ![p].failures = IF e = Nil THEN @ ELSE Append(@, e)]
    /\ UNCHANGED <<lifecycle, payload, phase>>

\* Lines 100-102: the forward call te.ConsumeMetrics(ctx, md) returns.
Forward(p) ==
    /\ call[p].pc = "forward"
    /\ \E e \in ForwardAnswers :
        /\ call' = [call EXCEPT ![p].pc = "record", ![p].err = e]
        /\ obs' = [obs EXCEPT
                ![p].events = Append(@, [op |-> "ConsumeMetrics",
                                         endpoint |-> call[p].endpoint,
                                         md |-> call[p].batches[call[p].idx],
                                         err |-> e]),
                ![p].failures = IF e = Nil THEN @ ELSE Append(@, e)]
    /\ UNCHANGED <<lifecycle, payload, phase>>

\* Lines 104-114: the latency sample of the forward call.
Record(p) ==
    /\ call[p].pc = "record"
    /\ call' = [call EXCEPT ![p].pc = "range"]
    /\ obs' = [obs EXCEPT ![p].events =
            Append(@, [op |-> "RecordWithTags",
                       tags |-> LatencySample(call[p].endpoint, call[p].err)])]
    /\ UNCHANGED <<lifecycle, payload, phase>>

\* Lines 88 and 116: every identifier was visited; consumeMetric returns err.
RangeDone(p) ==
    /\ call[p].pc = "range"
    /\ call[p].routingIds = {}
    /\ ReturnToLoop(p, obs[p].md, obs[p].extracted, call[p].err, {},
                    obs[p].events, Nil)
    /\ UNCHANGED <<lifecycle, payload, phase>>

\* A slip: the loop over the sub-batches stops at the first error.
ConsumeMetricsReturnFailFast(p) ==
    /\ call[p].pc = "loop"
    /\ call[p].idx > Len(call[p].batches) \/ call[p].errs # <<>>
    /\ call' = [call EXCEPT ![p].pc = "done", ![p].ret = call[p].errs]
    /\ UNCHANGED <<lifecycle, payload, phase, obs>>

\* Lines 75 and 79: every sub-batch was handed over; ConsumeMetrics returns.
ConsumeMetricsReturn(p) ==
    /\ call[p].pc = "loop"
    /\ call[p].idx > Len(call[p].batches)
    /\ call' = [call EXCEPT ![p].pc = "done", ![p].ret = call[p].errs]
    /\ UNCHANGED <<lifecycle, payload, phase, obs>>


\* Line 82: consumeMetric(ctx, payload) applied to the payload as one
\* sub-batch, its result appended as at line 76.
ConsumeMetricCall(p) ==
    /\ exporter = "created"
    /\ call[p].pc = "idle"
    /\ phase' = "run"
    /\ call' = [call EXCEPT ![p] = [IdleCall EXCEPT
            !.pc = "loop", !.entry = "consumeMetric",
            !.batches = <<payload>>, !.idx = 1]]
    /\ obs' = [obs EXCEPT ![p] = NoObs]
    /\ UNCHANGED <<lifecycle, payload>>

Step(p) ==
    \/ ConsumeMetricEnter(p)
    \/ Resolve(p)
    \/ Forward(p)
    \/ Record(p)
    \/ RangeDone(p)
    \/ ConsumeMetricsReturn(p)

\* ------------------------------------------------------- specifications
Res(svc, scopes) == [svc |-> svc, scopes |-> scopes]

\* The payloads of the lifecycle specification: one whose sub-batch is
\* forwarded, and one with a sub-batch that fails extraction.
LifecyclePayloads ==
    { <<Res("a", << <<"m1">> >>)>>,
      <<Res(NoAttr, << <<"m2">> >>), Res("b", <<>>)>> }

Configs == [key : RoutingKeyValues, lbErr : BOOLEAN]

\* Before construction: the pipeline holds a configuration and a payload.
Init ==
    /\ cfg \in Configs
    /\ exporter = "none"
    /\ newErr = Nil
    /\ routingKey = ""
    /\ lbState = "new"
    /\ stopped = FALSE
    /\ shutdownWg = 0
    /\ sd = [pc |-> "idle", inflight |-> {}, late |-> {}]
    /\ payload \in LifecyclePayloads
    /\ phase = "run"
    /\ call = [p \in Callers |-> IdleCall]
    /\ obs = [p \in Callers |-> NoObs]

Next ==
    \/ NewMetricsExporter
    \/ Start
    \/ ShutdownStop
    \/ ShutdownReturn
    \/ \E p \in Callers : ConsumeMetrics(p)
    \/ \E p \in Callers : Step(p)

Spec == Init /\ [][Next]_vars

\* The scheduler runs every goroutine that can take a step: Wait returns
\* when the counter is zero (line 68), and every call of an invocation in
\* flight returns.
Fairness ==
    /\ WF_vars(ShutdownReturn)
    /\ \A p \in Callers : WF_vars(Step(p))

\* The lifecycle of one exporter that routes by service name and whose
\* load balancer is constructed.
InitLive ==
    /\ Init
    /\ cfg = [key |-> "service", lbErr |-> FALSE]

SpecLive == InitLive /\ [][Next]_vars /\ Fairness

\* One caller, after a successful construction and start, with a payload
\* assembled by the pipeline.
InitDispatch ==
    /\ cfg \in {c \in Configs : newMetricsExporter(c).err = Nil}
    /\ exporter = newMetricsExporter(cfg).exp
    /\ newErr = newMetricsExporter(cfg).err
    /\ routingKey = newMetricsExporter(cfg).routingKey
    /\ lbState = "started"
    /\ stopped = FALSE
    /\ shutdownWg = 0
    /\ sd = [pc |-> "idle", inflight |-> {}, late |-> {}]
    /\ payload = <<>>
    /\ phase = "build"
    /\ call = [p \in Callers |-> IdleCall]
    /\ obs = [p \in Callers |-> NoObs]

NextDispatch ==
    \/ \E svc \in ServiceNames \cup {NoAttr} : AddResource(svc)
    \/ AddScope
    \/ \E name \in MetricNames : AddMetric(name)
    \/ ConsumeMetrics(1)
    \/ ConsumeMetricCall(1)
    \/ Step(1)

SpecDispatch == InitDispatch /\ [][NextDispatch]_vars


\* --------------------------------------------------------------- claims
Range(seq) == {seq[i] : i \in 1..Len(seq)}

\* The non-nil errors of a dispatch log, in order.
ReturnedErrors(dispatched) ==
    LET failed == SelectSeq(dispatched, LAMBDA d : d.err # Nil)
    IN  [i \in 1..Len(failed) |-> failed[i].err]

\* consumeMetric has run routingIdentifiersFromMetrics for caller p.
Extracted(p) ==
    call[p].pc \in {"range", "forward", "record"} \/ obs[p].dispatched # <<>>

\* The last consumeMetric call of caller p has returned.
Returned(p) ==
    call[p].pc \in {"loop", "done"} /\ obs[p].dispatched # <<>>

ValidationErrors == {ErrEmptyResource, ErrEmptyScope, ErrEmptyMetrics}

\* md has no resource group, no scope group at all, or no metric at all.
HasNothingToRoute(md) ==
    \/ Len(md) = 0
    \/ \A i \in 1..Len(md) : Len(md[i].scopes) = 0
    \/ \A i \in 1..Len(md) : \A j \in 1..Len(md[i].scopes) :
            Len(md[i].scopes[j]) = 0

\* md passes the three checks of lines 126-139.
WellFormed(md) ==
    /\ Len(md) > 0
    /\ Len(md[1].scopes) > 0
    /\ Len(md[1].scopes[1]) > 0

IsResolutionFailure(ev) == ev.op = "Exporter" /\ ev.answer # "metrics"
IsForwardFailure(ev) == ev.op = "ConsumeMetrics" /\ ev.err # Nil

\* C1: when Shutdown has returned, every ConsumeMetrics invocation that was
\* in flight when Shutdown was called has returned.
C1_ShutdownWaitsForInFlight ==
    sd.pc = "returned" => \A p \in sd.inflight : call[p].pc = "done"

\* C2: in every state the drain counter shutdownWg equals the number of
\* ConsumeMetrics invocations in flight.
C2_DrainCounterCountsInFlight ==
    shutdownWg = Cardinality({p \in Callers : InFlight(p)})

\* C3: ConsumeMetrics returns nil if and only if no sub-batch of the payload
\* met a failure (extraction, resolution, type mismatch or forward), and a
\* non-nil result contains at least one of the failures met.
C3_NilIffNoFailure ==
    \A p \in Callers :
        (call[p].pc = "done" /\ call[p].entry = "ConsumeMetrics") =>
            /\ (call[p].ret = <<>>) <=> (obs[p].failures = <<>>)
            /\ call[p].ret # <<>> =>
                    Range(call[p].ret) \cap Range(obs[p].failures) # {}

\* A payload of two sub-batches: one forwarded with success, one whose
\* forward failed, and the failure is returned.
C3_Witness ==
    \E p \in Callers :
        /\ call[p].pc = "done"
        /\ call[p].entry = "ConsumeMetrics"
        /\ Len(call[p].batches) = 2
        /\ \E i \in 1..2 : obs[p].dispatched[i].err = Nil
        /\ call[p].ret = <<ErrForward>>

\* C4: ConsumeMetrics hands every sub-batch of the splitter to consumeMetric,
\* whatever the earlier ones returned, and its result is the aggregate of
\* every non-nil error they returned.
C4_AllSubBatchesAttempted ==
    \A p \in Callers :
        /\ call[p].pc \in {"loop", "done"} =>
                call[p].errs = ReturnedErrors(obs[p].dispatched)
        /\ call[p].pc = "done" =>
                /\ Len(obs[p].dispatched) = Len(call[p].batches)
                /\ \A i \in 1..Len(call[p].batches) :
                        obs[p].dispatched[i].md = call[p].batches[i]
                /\ call[p].ret = ReturnedErrors(obs[p].dispatched)

\* The first sub-batch failed validation and the second was still forwarded.
C4_Witness ==
    \E p \in Callers :
        /\ call[p].pc = "done"
        /\ call[p].entry = "ConsumeMetrics"
        /\ Len(call[p].batches) = 2
        /\ obs[p].dispatched[1].err \in ValidationErrors
        /\ \E i \in 1..Len(obs[p].events) : obs[p].events[i].op = "ConsumeMetrics"
        /\ Len(call[p].ret) = 2

\* C5 as claimed: within one sub-batch dispatch, after a resolution error, a
\* type mismatch or a failed forward call, no further identifier is resolved
\* or forwarded to.
C5_AnyFailureAborts ==
    \A p \in Callers :
        \A i, j \in 1..Len(obs[p].events) :
            (i < j /\ (IsResolutionFailure(obs[p].events[i])
                        \/ IsForwardFailure(obs[p].events[i])))
                => obs[p].events[j].op \notin {"Endpoint", "Exporter", "ConsumeMetrics"}

\* The identifiers the current sub-batch dispatch of caller p has visited.
Visited(p) ==
    {obs[p].events[i].rid :
        i \in {k \in 1..Len(obs[p].events) : obs[p].events[k].op = "Endpoint"}}

\* C5 as amended: a resolution error or a type mismatch ends the sub-batch
\* dispatch at once, with that error; a failed forward call does not: without
\* a resolution error or type mismatch every identifier is visited.
C5_ResolutionFailureAborts ==
    \A p \in Callers :
        /\ \A i \in 1..Len(obs[p].events) :
                IsResolutionFailure(obs[p].events[i]) =>
                    /\ i = Len(obs[p].events)
                    /\ Returned(p)
                    /\ obs[p].dispatched[Len(obs[p].dispatched)].err
                            \in {ErrExporter, ErrUnexpectedType}
        /\ (/\ Returned(p)
            /\ obs[p].extracted.err = Nil
            /\ \A i \in 1..Len(obs[p].events) :
                    ~IsResolutionFailure(obs[p].events[i]))
                => Visited(p) = obs[p].extracted.ids

\* A resolution failure ended the dispatch and left an identifier unvisited.
C5_Witness ==
    \E p \in Callers :
        /\ Returned(p)
        /\ obs[p].events # <<>>
        /\ IsResolutionFailure(obs[p].events[Len(obs[p].events)])
        /\ obs[p].left # {}

\* C6: every forward call is followed by exactly one latency sample, tagged
\* with the endpoint the identifier resolved to and with success = true
\* exactly when the forward call returned no error; no other sample is made.
C6_OneSamplePerForward ==
    \A p \in Callers :
        LET ev == obs[p].events IN
        /\ \A i \in 1..Len(ev) :
            /\ ev[i].op = "ConsumeMetrics" =>
                /\ i >= 3
                /\ ev[i - 2].op = "Endpoint"
                /\ ev[i - 2].rid \in obs[p].extracted.ids
                /\ ev[i - 2].endpoint = ev[i].endpoint
                /\ \/ i = Len(ev) /\ call[p].pc = "record"
                   \/ /\ i < Len(ev)
                      /\ ev[i + 1].op = "RecordWithTags"
                      /\ ev[i + 1].tags.endpoint = ev[i].endpoint
                      /\ ev[i + 1].tags.success = (ev[i].err = Nil)
            /\ ev[i].op = "RecordWithTags" =>
                /\ i >= 2
                /\ ev[i - 1].op = "ConsumeMetrics"
        /\ call[p].pc = "record" =>
                (Len(ev) > 0 /\ ev[Len(ev)].op = "ConsumeMetrics")

\* One sub-batch with a failed and a successful forward call, both sampled.
C6_Witness ==
    \E p \in Callers :
        /\ Returned(p)
        /\ \E i, j \in 1..Len(obs[p].events) :
            /\ obs[p].events[i].op = "RecordWithTags"
            /\ obs[p].events[j].op = "RecordWithTags"
            /\ obs[p].events[i].tags.success
            /\ ~obs[p].events[j].tags.success

\* C7: a sub-batch with no resource group, no scope group or no metric fails
\* validation: consumeMetric returns the extractor's error and makes no call
\* to Endpoint, Exporter, the backend exporter or the latency measure.
C7_ValidationFailureDispatchesNothing ==
    \A p \in Callers :
        /\ \A i \in 1..Len(obs[p].dispatched) :
                HasNothingToRoute(obs[p].dispatched[i].md) =>
                    obs[p].dispatched[i].err \in ValidationErrors
        /\ (Extracted(p) /\ HasNothingToRoute(obs[p].md)) =>
                /\ Returned(p)
                /\ obs[p].events = <<>>
                /\ obs[p].extracted.err \in ValidationErrors
                /\ obs[p].extracted.ids = {}
                /\ obs[p].dispatched[Len(obs[p].dispatched)] =
                        [md |-> obs[p].md, err |-> obs[p].extracted.err]

\* A sub-batch with a service name and scope groups but no metric failed
\* validation under service routing.
C7_Witness ==
    \E p \in Callers :
        /\ Returned(p)
        /\ routingKey = svcRouting
        /\ Len(obs[p].md) = 2
        /\ \A i \in 1..2 : obs[p].md[i].svc # NoAttr /\ Len(obs[p].md[i].scopes) > 0
        /\ HasNothingToRoute(obs[p].md)
        /\ obs[p].extracted.err = ErrEmptyMetrics

\* C8: under service routing the identifier set is the set of the
\* service.name values of all resources of the sub-batch, and when one
\* resource lacks the attribute extraction fails with no identifier set.
C8_ServiceIdentifiers ==
    \A p \in Callers :
        (Extracted(p) /\ routingKey = svcRouting /\ WellFormed(obs[p].md)) =>
            LET md == obs[p].md IN
            IF \A i \in 1..Len(md) : md[i].svc # NoAttr
            THEN obs[p].extracted =
                    [ids |-> {md[i].svc : i \in 1..Len(md)}, err |-> Nil]
            ELSE /\ obs[p].extracted.err = ErrNoServiceName
                 /\ obs[p].extracted.ids = {}

\* Three resources with two distinct service names.
C8_Witness ==
    \E p \in Callers :
        /\ Extracted(p)
        /\ routingKey = svcRouting
        /\ Len(obs[p].md) = 3
        /\ obs[p].extracted.ids = {"a", "b"}

\* C9: under default routing the identifier set of a sub-batch that passes
\* validation is the singleton of the name of the first metric of the first
\* scope of the first resource.
C9_DefaultIdentifier ==
    \A p \in Callers :
        (Extracted(p) /\ routingKey = traceIDRouting /\ WellFormed(obs[p].md)) =>
            obs[p].extracted =
                [ids |-> {obs[p].md[1].scopes[1][1]}, err |-> Nil]

\* The first scope holds two metrics of different names and another resource
\* follows.
C9_Witness ==
    \E p \in Callers :
        /\ Extracted(p)
        /\ routingKey = traceIDRouting
        /\ Len(obs[p].md) = 2
        /\ WellFormed(obs[p].md)
        /\ Len(obs[p].md[1].scopes[1]) = 2
        /\ obs[p].md[1].scopes[1][1] # obs[p].md[1].scopes[1][2]
        /\ obs[p].extracted.ids = {obs[p].md[1].scopes[1][1]}

RecognizedKeys == {"service", "_metric_ID", ""}

RoutingModeOf(key) == IF key = "service" THEN svcRouting ELSE traceIDRouting

\* Nothing was started and no caller ever ran.
NeverStarted ==
    /\ lbState = "new"
    /\ \A p \in Callers : call[p] = IdleCall /\ obs[p] = NoObs

\* C10 as claimed: "service" maps to service routing, "" and "_metric_ID" to
\* default routing, any other value fails construction with an error naming
\* it; after a failed construction nothing is ever started, and the routing
\* mode stays what construction made it.
C10_UnsupportedKeyNamed ==
    exporter # "none" =>
        /\ exporter = "created" =>
                cfg.key \in RecognizedKeys /\ routingKey = RoutingModeOf(cfg.key)
        /\ cfg.key \notin RecognizedKeys =>
                /\ exporter = "nil"
                /\ newErr = "unsupported routing_key: " \o cfg.key
        /\ exporter = "nil" => NeverStarted

\* C10 as amended: the error names the unsupported value when the load
\* balancer could be created; when newLoadBalancer fails, construction fails
\* with the load balancer's error whatever the routing key is.
C10_ConstructionMapsRoutingKey ==
    exporter # "none" =>
        /\ exporter = "created" =>
                /\ ~cfg.lbErr
                /\ cfg.key \in RecognizedKeys
                /\ routingKey = RoutingModeOf(cfg.key)
                /\ newErr = Nil
        /\ (~cfg.lbErr /\ cfg.key \in RecognizedKeys) => exporter = "created"
        /\ cfg.key \notin RecognizedKeys =>
                /\ exporter = "nil"
                /\ newErr = IF cfg.lbErr THEN ErrNewLoadBalancer
                            ELSE "unsupported routing_key: " \o cfg.key
        /\ cfg.lbErr => exporter = "nil" /\ newErr = ErrNewLoadBalancer
        /\ exporter = "nil" => NeverStarted

\* Construction with routing_key "bogus" failed.
C10_Witness ==
    /\ exporter = "nil"
    /\ cfg = [key |-> "bogus", lbErr |-> FALSE]
    /\ newErr = "unsupported routing_key: bogus"


\* Caller p has looked up an endpoint or made a forward call in the
\* sub-batch dispatch its events belong to.
HasDispatched(p) ==
    \E i \in 1..Len(obs[p].events) :
        obs[p].events[i].op \in {"Endpoint", "ConsumeMetrics"}

\* Caller p has made a forward call in that sub-batch dispatch.
HasForwarded(p) ==
    \E i \in 1..Len(obs[p].events) : obs[p].events[i].op = "ConsumeMetrics"

\* C11: after a Start that returned an error no ConsumeMetrics invocation
\* looks up an endpoint or forwards data; data is forwarded only by a
\* dispatcher whose Start succeeded.
C11_NoTrafficUnlessStarted ==
    \A p \in Callers :
        lbState # "started" =>
            /\ call[p].pc \notin {"forward", "record"}
            /\ ~HasDispatched(p)

\* C12: when Shutdown has returned the load balancer has been shut down, and
\* every invocation in flight when Shutdown was called had returned by then.
C12_ShutdownReleasesLoadBalancer ==
    sd.pc = "returned" =>
        /\ lbState = "shutdown"
        /\ \A p \in sd.inflight : call[p].pc = "done"

\* C18: the stop flag stays set once Shutdown has set it, and an invocation
\* that begins after Shutdown has returned makes no forward call.
C18_NewWorkRejectedAfterShutdown ==
    /\ sd.pc # "idle" => stopped
    /\ \A p \in sd.late :
            /\ call[p].pc \notin {"forward", "record"}
            /\ ~HasForwarded(p)


\* The number of events of caller p's sub-batch dispatch made by operation op.
CountOf(p, op) ==
    Cardinality({i \in 1..Len(obs[p].events) : obs[p].events[i].op = op})

\* The error the last consumeMetric call of caller p returned.
LastReturned(p) == obs[p].dispatched[Len(obs[p].dispatched)].err

\* C14: consumeMetric returns nil only if every forward call it made
\* succeeded; a forward call that failed is reported even when the forward
\* call for a later identifier succeeds.
C14_ForwardFailureReported ==
    \A p \in Callers :
        Returned(p) =>
            /\ LastReturned(p) = Nil =>
                    \A i \in 1..Len(obs[p].events) :
                        ~IsForwardFailure(obs[p].events[i])
            /\ (\E i \in 1..Len(obs[p].events) : IsForwardFailure(obs[p].events[i]))
                    => LastReturned(p) # Nil

\* C15: when Exporter returns an error or a component that is no
\* exporter.Metrics, consumeMetric returns that error at once: no forward call
\* and no sample for that identifier, and the identifiers not yet visited
\* stay unvisited.
C15_ResolutionFailureReturnsAtOnce ==
    \A p \in Callers :
        \A i \in 1..Len(obs[p].events) :
            IsResolutionFailure(obs[p].events[i]) =>
                /\ i = Len(obs[p].events)
                /\ obs[p].events[i - 1].op = "Endpoint"
                /\ obs[p].events[i - 1].endpoint = obs[p].events[i].endpoint
                /\ Returned(p)
                /\ LastReturned(p) =
                        IF obs[p].events[i].answer = "error"
                        THEN ErrExporter ELSE ErrUnexpectedType
                /\ CountOf(p, "ConsumeMetrics") = CountOf(p, "Endpoint") - 1
                /\ CountOf(p, "RecordWithTags") = CountOf(p, "Endpoint") - 1
                /\ obs[p].left = obs[p].extracted.ids \ Visited(p)

\* The second identifier resolved to a component of another type, after the
\* first had been forwarded to.
C15_Witness ==
    \E p \in Callers :
        /\ Returned(p)
        /\ Len(obs[p].events) = 6
        /\ obs[p].events[6].op = "Exporter"
        /\ obs[p].events[6].answer = "other"
        /\ LastReturned(p) = ErrUnexpectedType

\* Every lookup and forward call of caller p's sub-batch dispatch succeeded.
AllSucceeded(p) ==
    \A i \in 1..Len(obs[p].events) :
        /\ ~IsResolutionFailure(obs[p].events[i])
        /\ ~IsForwardFailure(obs[p].events[i])

\* C16: a sub-batch of k identifiers that all resolve and forward with
\* success makes k endpoint lookups, k forward calls and k samples, one per
\* identifier, and every forward call is given the whole sub-batch.
C16_OneForwardPerIdentifier ==
    \A p \in Callers :
        /\ \A i \in 1..Len(obs[p].events) :
                obs[p].events[i].op = "ConsumeMetrics" =>
                    obs[p].events[i].md = obs[p].md
        /\ (Returned(p) /\ obs[p].extracted.err = Nil /\ AllSucceeded(p)) =>
                LET k == Cardinality(obs[p].extracted.ids) IN
                /\ CountOf(p, "Endpoint") = k
                /\ CountOf(p, "Exporter") = k
                /\ CountOf(p, "ConsumeMetrics") = k
                /\ CountOf(p, "RecordWithTags") = k
                /\ Len(obs[p].events) = 4 * k
                /\ Visited(p) = obs[p].extracted.ids
                /\ LastReturned(p) = Nil

\* Two identifiers, both forwarded the sub-batch of two resources.
C16_Witness ==
    \E p \in Callers :
        /\ Returned(p)
        /\ AllSucceeded(p)
        /\ obs[p].extracted.ids = {"a", "b"}
        /\ Len(obs[p].events) = 8
        /\ Len(obs[p].md) = 2

\* C17: in both routing modes extraction checks, in this order, that there is
\* a resource group, that the first one has a scope group and that its first
\* scope group has a metric; the first check that fails gives the error, no
\* identifier is derived, and the three errors differ.
C17_ValidationOrder ==
    /\ Cardinality(ValidationErrors) = 3
    /\ ErrNoServiceName \notin ValidationErrors
    /\ \A p \in Callers :
        Extracted(p) =>
            LET md == obs[p].md
                r == obs[p].extracted IN
            /\ Len(md) = 0 => r = [ids |-> {}, err |-> ErrEmptyResource]
            /\ (Len(md) > 0 /\ Len(md[1].scopes) = 0) =>
                    r = [ids |-> {}, err |-> ErrEmptyScope]
            /\ (Len(md) > 0 /\ Len(md[1].scopes) > 0 /\ Len(md[1].scopes[1]) = 0) =>
                    r = [ids |-> {}, err |-> ErrEmptyMetrics]
            /\ WellFormed(md) => r.err \notin ValidationErrors

\* Under service routing a first resource without service.name and with an
\* empty first scope fails with the error of the metrics check.
C17_Witness ==
    \E p \in Callers :
        /\ Extracted(p)
        /\ routingKey = svcRouting
        /\ Len(obs[p].md) > 0
        /\ obs[p].md[1].svc = NoAttr
        /\ Len(obs[p].md[1].scopes) > 0
        /\ Len(obs[p].md[1].scopes[1]) = 0
        /\ obs[p].extracted.err = ErrEmptyMetrics


\* One consumeMetric(md) run on its own, replayed against the collaborator
\* calls h from position pos on, with the identifiers ids still to visit and
\* err the value of the local err: the error it returns, the position after
\* its last call, and whether h is what that run does.
RECURSIVE AloneVisit(_, _, _, _, _)
AloneVisit(md, ids, h, pos, err) ==
    IF ids = {} THEN [ok |-> TRUE, err |-> err, pos |-> pos]
    ELSE IF pos + 1 > Len(h) THEN [ok |-> FALSE, err |-> err, pos |-> pos]
    ELSE IF ~(/\ h[pos].op = "Endpoint"
              /\ h[pos].rid \in ids
              /\ h[pos].endpoint = Endpoint(h[pos].rid)
              /\ h[pos + 1].op = "Exporter"
              /\ h[pos + 1].endpoint = h[pos].endpoint)
        THEN [ok |-> FALSE, err |-> err, pos |-> pos]
    ELSE IF h[pos + 1].answer = "error"
        THEN [ok |-> TRUE, err |-> ErrExporter, pos |-> pos + 2]
    ELSE IF h[pos + 1].answer = "other"
        THEN [ok |-> TRUE, err |-> ErrUnexpectedType, pos |-> pos + 2]
    ELSE IF pos + 3 > Len(h) THEN [ok |-> FALSE, err |-> err, pos |-> pos]
    ELSE IF ~(/\ h[pos + 2].op = "ConsumeMetrics"
              /\ h[pos + 2].endpoint = h[pos].endpoint
              /\ h[pos + 2].md = md
              /\ h[pos + 3] = [op |-> "RecordWithTags",
                               tags |-> [endpoint |-> h[pos].endpoint,
                                         success |-> (h[pos + 2].err = Nil)]])
        THEN [ok |-> FALSE, err |-> err, pos |-> pos]
    ELSE AloneVisit(md, ids \ {h[pos].rid}, h, pos + 4, h[pos + 2].err)

\* One ConsumeMetrics run on its own over the sub-batches i.. of batches,
\* replayed against h from pos on: the aggregate it returns and whether h is
\* exactly what that run does.
RECURSIVE Alone(_, _, _, _, _, _)
Alone(batches, key, i, h, pos, errs) ==
    IF i > Len(batches) THEN [ok |-> pos = Len(h) + 1, errs |-> errs]
    ELSE LET r == routingIdentifiersFromMetrics(batches[i], key) IN
         IF r.err # Nil
         THEN Alone(batches, key, i + 1, h, pos, Append(errs, r.err))
         ELSE LET v == AloneVisit(batches[i], r.ids, h, pos, Nil) IN
              IF ~v.ok THEN [ok |-> FALSE, errs |-> errs]
              ELSE Alone(batches, key, i + 1, h, v.pos,
                         IF v.err = Nil THEN errs ELSE Append(errs, v.err))

\* C13: whatever the interleaving with the other invocations and with Start
\* and Shutdown, the lookups, forward calls and samples of an invocation and
\* the value it returns are those of the same invocation run on its own with
\* the same answers of the load balancer and of the backends.
C13_InvocationsIndependent ==
    \A p \in Callers :
        call[p].pc = "done" =>
            LET alone == Alone(call[p].batches, routingKey, 1,
                               obs[p].history, 1, <<>>) IN
            /\ alone.ok
            /\ alone.errs = call[p].ret

\* Two invocations were in flight together when Shutdown was called; one has
\* returned an error after a forward call, the other is still forwarding.
C13_Witness ==
    \E p, q \in Callers :
        /\ p # q
        /\ {p, q} \subseteq sd.inflight
        /\ call[p].pc = "done"
        /\ call[p].ret # <<>>
        /\ \E i \in 1..Len(obs[p].history) : obs[p].history[i].op = "ConsumeMetrics"
        /\ call[q].pc = "record"


\* C19: once Shutdown has set the stop flag it returns, whatever invocations
\* are in flight and whatever invocations arrive afterwards.
C19_ShutdownReturns == (sd.pc = "wait") ~> (sd.pc = "returned")

\* Shutdown has returned while an invocation that arrived after the stop flag
\* was set is in flight.
C19_Witness ==
    /\ sd.pc = "returned"
    /\ \E p \in Callers :
           /\ InFlight(p)
           /\ p \notin sd.inflight
           /\ p \notin sd.late

====
